---- MODULE Spec2Model ----
(***************************************************************************)
(* Model of api_examples/ollama/07_async_stream_many.py: main() gathers    *)
(* one wrapped(model) task per model; each task takes a semaphore permit,  *)
(* opens a streaming POST, prints a header, then prints the "response" of  *)
(* every NDJSON line until a line with "done" arrives.  All prints are     *)
(* made under one asyncio.Lock.                                            *)
(*                                                                         *)
(* Tasks interleave at every step of the model (a superset of the          *)
(* interleavings the asyncio event loop produces).  The backend is the     *)
(* environment: at every read it delivers a line, the end of the stream    *)
(* or a transport error.                                                   *)
(***************************************************************************)
EXTENDS Integers, Sequences, FiniteSets, TLC

\* ---- program constants -------------------------------------------------
N == 3            \* number of models (targets)
SemPermits == 3   \* asyncio.Semaphore(3)

\* ---- bounds -------------------------------------------------------------
MaxLines == 2     \* lines the backend delivers on the streams of one run

VARIABLES
    limit,      \* initial value of sem (1..SemPermits)
    m,          \* number of models of this run (0..N)
    mainpc,     \* position of main() / asyncio.run
    pc,         \* position of each wrapped(model) task
    sem,        \* value of the semaphore
    lock,       \* holder of the print lock, 0 when free (NoLock: lock=None)
    recv,       \* per task: what aiter_lines has delivered so far (see NoRecv)
    outcome,    \* per task: how the coroutine ends
    cancelReq,  \* per task: task.cancel() was called and not yet delivered
    acquired,   \* per task: number of sem.acquire() that returned
    released,   \* per task: number of sem.release() calls
    out         \* stdout (see NoOutput)

vars == <<limit, m, mainpc, pc, sem, lock, recv, outcome, cancelReq,
          acquired, released, out>>

Tasks == 1..m

\* ---- NDJSON lines --------------------------------------------------------
\*  "empty"    ''                                (keep-alive)
\*  "frag"     {"response": "...", "done": false}
\*  "fragdone" {"response": "...", "done": true}
\*  "done"     {"done": true}
\*  "other"    valid JSON object with neither key (or a falsy "done")
\*  "bad"      non-empty text json.loads rejects
LineKinds == {"empty", "frag", "fragdone", "done", "other", "bad"}

\* the `if not line: continue` test left out
IsEmptyLineNever(k) == FALSE

\* `not line`
IsEmptyLine(k) == k = "empty"

\* json.loads(line) raises JSONDecodeError (also json.loads(''))
DecodeFails(k) == k \in {"empty", "bad"}

\* `"response" in data`
HasResponse(k) == k \in {"frag", "fragdone"}

\* `data.get("done")`
HasDone(k) == k \in {"fragdone", "done"}

\* what a task has been given by `async for line in response.aiter_lines()`:
\*   last   the line of the current iteration ("none" before the first,
\*          "eof" when the iterator is exhausted, "reset" when it raised)
\*   lines  number of lines delivered
\*   incs   number of delivered lines that carry a "response"
\*   quiet  every line before the current one was empty
NoRecv == [last |-> "none", lines |-> 0, incs |-> 0, quiet |-> TRUE]

\* the iterator yields line k
Deliver(r, k) ==
    [last |-> k,
     lines |-> r.lines + 1,
     incs |-> r.incs + (IF HasResponse(k) THEN 1 ELSE 0),
     quiet |-> r.quiet /\ r.last \in {"none", "empty"}]

\* the iterator ends the loop with e ("eof" or "reset")
EndOfLines(r, e) == [r EXCEPT !.last = e]

RECURSIVE TotalLines(_, _)
TotalLines(r, n) == IF n = 0 THEN 0 ELSE r[n].lines + TotalLines(r, n - 1)

\* stdout is one stream.  It is kept as, for every task, the subsequence of
\* the stream that the task wrote (`by`), each write a pair <<what, number of
\* the increment>>, and the task that made the latest write (`last`, 0 when
\* nothing was written).
NoOutput == [by |-> [t \in Tasks |-> <<>>], last |-> 0]

\* stdout written at the front instead of the end
EmitFront(o, t, item) == [by |-> [o.by EXCEPT ![t] = <<item>> \o @], last |-> t]

\* print(...) by task t: stdout is appended to
Emit(o, t, item) == [by |-> [o.by EXCEPT ![t] = Append(@, item)], last |-> t]

\* the semaphore left out of wrapped(): nothing to wait for
CanAcquireAlways(s) == TRUE

\* asyncio.Semaphore.acquire returns only when the value is positive
CanAcquire(s) == s > 0

\* stream_one called with lock=None: nothing to wait for
LockFreeAlways(l) == TRUE

\* asyncio.Lock.acquire returns only when the lock is not held
LockFree(l) == l = 0

\* the value of the variable `lock` when stream_one is called with lock=None
NoLock == -1

\* `if lock:`
HasLock(l) == l # NoLock

\* `async with lock` exit; nothing to release on the `else` branches
Release(l) == IF HasLock(l) THEN 0 ELSE l

\* the permit is never given back
ExitSemNever(s, oc) == s

\* acquire/release written without try/finally: no release on an exception
ExitSemOnSuccess(s, oc) == IF oc = "Success" THEN s + 1 ELSE s

\* `async with sem` exit: the permit goes back whatever the outcome
ExitSem(s, oc) == s + 1

\* positions
LockWaits == {"hdr_lock", "frag_lock", "trl_lock"}
WriteStates == {"hdr_write", "frag_write", "trl_write"}
WaitPos(w) == CASE w = "hdr" -> "hdr_lock" [] w = "frag" -> "frag_lock" [] OTHER -> "trl_lock"
WritePos(w) == CASE w = "hdr" -> "hdr_write" [] w = "frag" -> "frag_write" [] OTHER -> "trl_write"
StreamOpen == LockWaits \cup WriteStates \cup {"reading", "closing"}
HoldsPermit == StreamOpen \cup {"connecting"}

\* the semaphore made with one permit less than the run is configured for
InitFewerPermits ==
    /\ limit \in 1..SemPermits
    /\ m \in 0..N
    /\ mainpc = "start"
    /\ pc = [t \in 1..m |-> "pending"]
    /\ sem = limit - 1
    /\ lock = 0
    /\ recv = [t \in 1..m |-> NoRecv]
    /\ outcome = [t \in 1..m |-> "none"]
    /\ cancelReq = [t \in 1..m |-> FALSE]
    /\ acquired = [t \in 1..m |-> 0]
    /\ released = [t \in 1..m |-> 0]
    /\ out = NoOutput

\* ---- initial state ------------------------------------------------------
Init ==
    /\ limit \in 1..SemPermits
    /\ m \in 0..N
    /\ mainpc = "start"
    /\ pc = [t \in 1..m |-> "pending"]
    /\ sem = limit
    /\ lock = 0
    /\ recv = [t \in 1..m |-> NoRecv]
    /\ outcome = [t \in 1..m |-> "none"]
    /\ cancelReq = [t \in 1..m |-> FALSE]
    /\ acquired = [t \in 1..m |-> 0]
    /\ released = [t \in 1..m |-> 0]
    /\ out = NoOutput

\* ---- main() and asyncio.run --------------------------------------------
AllTerminated == \A t \in Tasks : pc[t] = "terminated"

\* wrapped() without `async with sem`: every task goes straight to stream_one
GatherNoSem ==
    /\ mainpc = "start"
    /\ mainpc' = "gather"
    /\ pc' = [t \in Tasks |-> "connecting"]
    /\ UNCHANGED <<limit, m, sem, lock, recv, outcome, cancelReq, acquired, released, out>>

\* asyncio.gather(*(wrapped(m) for m in models)): every task is scheduled
Gather ==
    /\ mainpc = "start"
    /\ mainpc' = "gather"
    /\ pc' = [t \in Tasks |-> "acquiring"]
    /\ UNCHANGED <<limit, m, sem, lock, recv, outcome, cancelReq, acquired, released, out>>

Failed(t) == pc[t] = "terminated" /\ outcome[t] # "Success"

\* the exception leaves main() but no task is cancelled
GatherRaiseNoCancel ==
    /\ mainpc = "gather"
    /\ \E t \in Tasks : Failed(t)
    /\ mainpc' = "raised"
    /\ UNCHANGED <<limit, m, pc, sem, lock, recv, outcome, cancelReq, acquired, released, out>>

\* gather without return_exceptions: the first exception of a child is
\* raised in main() at once and the other children are left running.  The
\* exception leaves `async with httpx.AsyncClient` and main(); asyncio.run
\* then calls cancel() on every task that is still alive.
GatherRaise ==
    /\ mainpc = "gather"
    /\ \E t \in Tasks : Failed(t)
    /\ mainpc' = "raised"
    /\ cancelReq' = [t \in Tasks |-> pc[t] # "terminated"]
    /\ UNCHANGED <<limit, m, pc, sem, lock, recv, outcome, acquired, released, out>>

\* gather returns once every child has returned; the client is closed and
\* main() returns
GatherReturn ==
    /\ mainpc = "gather"
    /\ AllTerminated
    /\ \A t \in Tasks : outcome[t] = "Success"
    /\ mainpc' = "returned"
    /\ UNCHANGED <<limit, m, pc, sem, lock, recv, outcome, cancelReq, acquired, released, out>>

\* asyncio.run: the loop runs until the cancelled tasks are finished, then
\* the exception of main() leaves asyncio.run
Exited == mainpc = "raised" /\ AllTerminated

\* ---- wrapped(model) / stream_one ----------------------------------------
\* `async with sem` entry.  The tasks were scheduled by gather in the order
\* of models and the waiters of an asyncio.Semaphore are woken first-in
\* first-out, so permits are granted in task order.
Acquire(t) ==
    /\ pc[t] = "acquiring"
    /\ ~cancelReq[t]
    /\ CanAcquire(sem)
    /\ \A u \in Tasks : u < t => pc[u] # "acquiring"
    /\ sem' = sem - 1
    /\ acquired' = [acquired EXCEPT ![t] = @ + 1]
    /\ pc' = [pc EXCEPT ![t] = "connecting"]
    /\ UNCHANGED <<limit, m, mainpc, lock, recv, outcome, cancelReq, released, out>>

\* `async with lock` entry by task t when the lock is in state l, for the
\* write w ("hdr", "frag", "trl"): asyncio.Lock.acquire takes a free lock
\* that nobody waits for without suspending, and waits otherwise.  Without
\* a lock (`else:`) the print is reached at once.
LockEntry(t, l, w) ==
    IF ~HasLock(l) THEN [pc |-> WritePos(w), lock |-> l]
    ELSE IF LockFree(l) /\ \A u \in Tasks \ {t} : pc[u] \notin LockWaits
         THEN [pc |-> WritePos(w), lock |-> t]
         ELSE [pc |-> WaitPos(w), lock |-> l]

\* task t goes on to `next`: the top of the loop or a write
GoTo(t, l, next) ==
    IF next = "reading" THEN [pc |-> "reading", lock |-> l]
    ELSE LockEntry(t, l, next)

\* `async with client.stream(...)` entry succeeds; `async with lock` of the
\* header is entered
ConnectOk(t) ==
    /\ pc[t] = "connecting"
    /\ ~cancelReq[t]
    /\ LET e == LockEntry(t, lock, "hdr")
       IN /\ pc' = [pc EXCEPT ![t] = e.pc]
          /\ lock' = e.lock
    /\ UNCHANGED <<limit, m, mainpc, sem, recv, outcome, cancelReq, acquired, released, out>>

\* `async with sem` exit, after which wrapped() is finished: there is no
\* await between the release and the end of the coroutine
Unwind(t, oc) ==
    /\ sem' = ExitSem(sem, oc)
    /\ released' = [released EXCEPT ![t] = @ + (sem' - sem)]
    /\ pc' = [pc EXCEPT ![t] = "terminated"]

\* the header printed before `async with client.stream(...)` is entered
ConnectFailAfterHeader(t) ==
    /\ pc[t] = "connecting"
    /\ ~cancelReq[t]
    /\ out' = Emit(out, t, <<"hdr", 0>>)
    /\ outcome' = [outcome EXCEPT ![t] = "ConnectFailure"]
    /\ Unwind(t, "ConnectFailure")
    /\ UNCHANGED <<limit, m, mainpc, lock, recv, cancelReq, acquired>>

\* `async with client.stream(...)` entry raises (connect / write phase)
ConnectFail(t) ==
    /\ pc[t] = "connecting"
    /\ ~cancelReq[t]
    /\ outcome' = [outcome EXCEPT ![t] = "ConnectFailure"]
    /\ Unwind(t, "ConnectFailure")
    /\ UNCHANGED <<limit, m, mainpc, lock, recv, cancelReq, acquired, out>>

\* a task waiting in `async with lock` is woken and takes the lock
LockAcquire(t) ==
    /\ pc[t] \in LockWaits
    /\ ~cancelReq[t]
    /\ LockFree(lock)
    /\ lock' = t
    /\ pc' = [pc EXCEPT ![t] = CASE pc[t] = "hdr_lock" -> "hdr_write"
                                [] pc[t] = "frag_lock" -> "frag_write"
                                [] OTHER -> "trl_write"]
    /\ UNCHANGED <<limit, m, mainpc, sem, recv, outcome, cancelReq, acquired, released, out>>

\* `async with lock` put around the whole body of stream_one: the lock is
\* kept after the header
WriteHeaderKeepLock(t) ==
    /\ pc[t] = "hdr_write"
    /\ out' = Emit(out, t, <<"hdr", 0>>)
    /\ pc' = [pc EXCEPT ![t] = "reading"]
    /\ UNCHANGED <<limit, m, mainpc, sem, lock, recv, outcome, cancelReq, acquired, released>>

\* print(header) and `async with lock` exit
WriteHeader(t) ==
    /\ pc[t] = "hdr_write"
    /\ out' = Emit(out, t, <<"hdr", 0>>)
    /\ lock' = Release(lock)
    /\ pc' = [pc EXCEPT ![t] = "reading"]
    /\ UNCHANGED <<limit, m, mainpc, sem, recv, outcome, cancelReq, acquired, released>>

\* the trailer printed without the `data.get("done")` test
AfterResponseTrailerAlways(k) == "trl"

\* where the body of the loop goes after `if "response" in data: ...`
AfterResponse(k) == IF HasDone(k) THEN "trl" ELSE "reading"

\* the "done" test made before the "response" test
AfterDecodeDoneFirst(k) ==
    IF HasDone(k) THEN "trl"
    ELSE IF HasResponse(k) THEN "frag" ELSE "reading"

\* where the body of the loop goes with a decoded line
AfterDecode(k) == IF HasResponse(k) THEN "frag" ELSE AfterResponse(k)

\* aiter_lines yields a line; `if not line`, json.loads
ReadLine(t, k) ==
    /\ pc[t] = "reading"
    /\ ~cancelReq[t]
    /\ TotalLines(recv, m) < MaxLines
    /\ recv' = [recv EXCEPT ![t] = Deliver(@, k)]
    /\ IF IsEmptyLine(k)
         THEN UNCHANGED <<pc, lock, outcome>>
         ELSE IF DecodeFails(k)
           THEN /\ outcome' = [outcome EXCEPT ![t] = "MalformedRecord"]
                /\ pc' = [pc EXCEPT ![t] = "closing"]
                /\ UNCHANGED lock
           ELSE /\ LET e == GoTo(t, lock, AfterDecode(k))
                   IN /\ pc' = [pc EXCEPT ![t] = e.pc]
                      /\ lock' = e.lock
                /\ UNCHANGED outcome
    /\ UNCHANGED <<limit, m, mainpc, sem, cancelReq, acquired, released, out>>

\* aiter_lines is exhausted: the loop ends and stream_one returns
ReadEnd(t) ==
    /\ pc[t] = "reading"
    /\ ~cancelReq[t]
    /\ recv' = [recv EXCEPT ![t] = EndOfLines(@, "eof")]
    /\ outcome' = [outcome EXCEPT ![t] = "Success"]
    /\ pc' = [pc EXCEPT ![t] = "closing"]
    /\ UNCHANGED <<limit, m, mainpc, sem, lock, cancelReq, acquired, released, out>>

\* aiter_lines raises (read timeout, connection reset)
ReadFail(t) ==
    /\ pc[t] = "reading"
    /\ ~cancelReq[t]
    /\ recv' = [recv EXCEPT ![t] = EndOfLines(@, "reset")]
    /\ outcome' = [outcome EXCEPT ![t] = "ReadError"]
    /\ pc' = [pc EXCEPT ![t] = "closing"]
    /\ UNCHANGED <<limit, m, mainpc, sem, lock, cancelReq, acquired, released, out>>

\* print(data["response"], end=""), `async with lock` exit, and the entry of
\* the trailer's `async with lock` when the line has "done"
WriteFragment(t) ==
    /\ pc[t] = "frag_write"
    /\ out' = Emit(out, t, <<"frag", recv[t].incs>>)
    /\ LET e == GoTo(t, Release(lock), AfterResponse(recv[t].last))
       IN /\ pc' = [pc EXCEPT ![t] = e.pc]
          /\ lock' = e.lock
    /\ UNCHANGED <<limit, m, mainpc, sem, recv, outcome, cancelReq, acquired, released>>

\* `break` left out: the loop goes on after the trailer
WriteTrailerNoBreak(t) ==
    /\ pc[t] = "trl_write"
    /\ out' = Emit(out, t, <<"trl", 0>>)
    /\ lock' = Release(lock)
    /\ pc' = [pc EXCEPT ![t] = "reading"]
    /\ UNCHANGED <<limit, m, mainpc, sem, recv, outcome, cancelReq, acquired, released>>

\* the permit given back at `break`, before `async with client.stream` is left
WriteTrailerReleaseFirst(t) ==
    /\ pc[t] = "trl_write"
    /\ out' = Emit(out, t, <<"trl", 0>>)
    /\ lock' = Release(lock)
    /\ outcome' = [outcome EXCEPT ![t] = "Success"]
    /\ sem' = sem + 1
    /\ released' = [released EXCEPT ![t] = @ + 1]
    /\ pc' = [pc EXCEPT ![t] = "closing"]
    /\ UNCHANGED <<limit, m, mainpc, recv, cancelReq, acquired>>

\* print("\n\n"), `async with lock` exit, break
WriteTrailer(t) ==
    /\ pc[t] = "trl_write"
    /\ out' = Emit(out, t, <<"trl", 0>>)
    /\ lock' = Release(lock)
    /\ outcome' = [outcome EXCEPT ![t] = "Success"]
    /\ pc' = [pc EXCEPT ![t] = "closing"]
    /\ UNCHANGED <<limit, m, mainpc, sem, recv, cancelReq, acquired, released>>

\* `async with client.stream(...)` exit: response.aclose() completes, then
\* the permit is released and the task is finished
CloseStream(t) ==
    /\ pc[t] = "closing"
    /\ ~cancelReq[t]
    /\ Unwind(t, outcome[t])
    /\ UNCHANGED <<limit, m, mainpc, lock, recv, outcome, cancelReq, acquired, out>>

\* a task is suspended at an await
Suspended(t) ==
    pc[t] \in {"acquiring", "connecting", "reading", "closing"} \cup LockWaits

\* CancelledError is thrown into the task at the await it is suspended at
Cancel(t) ==
    /\ cancelReq[t]
    /\ Suspended(t)
    /\ cancelReq' = [cancelReq EXCEPT ![t] = FALSE]
    /\ outcome' = [outcome EXCEPT ![t] = "Cancelled"]
    /\ CASE pc[t] = "acquiring" ->
              /\ pc' = [pc EXCEPT ![t] = "terminated"]
              /\ UNCHANGED <<sem, released>>
         [] pc[t] \in {"connecting", "closing"} ->
              Unwind(t, "Cancelled")
         [] OTHER ->
              /\ pc' = [pc EXCEPT ![t] = "closing"]
              /\ UNCHANGED <<sem, released>>
    /\ UNCHANGED <<limit, m, mainpc, lock, recv, acquired, out>>

Next ==
    \/ Gather
    \/ GatherRaise
    \/ GatherReturn
    \/ \E t \in Tasks : Acquire(t)
    \/ \E t \in Tasks : ConnectOk(t)
    \/ \E t \in Tasks : ConnectFail(t)
    \/ \E t \in Tasks : LockAcquire(t)
    \/ \E t \in Tasks : WriteHeader(t)
    \/ \E t \in Tasks : \E k \in LineKinds : ReadLine(t, k)
    \/ \E t \in Tasks : ReadEnd(t)
    \/ \E t \in Tasks : ReadFail(t)
    \/ \E t \in Tasks : WriteFragment(t)
    \/ \E t \in Tasks : WriteTrailer(t)
    \/ \E t \in Tasks : CloseStream(t)
    \/ \E t \in Tasks : Cancel(t)

Spec == Init /\ [][Next]_vars

\* stream_one as any caller may invoke it: with the lock of main(), or with
\* lock=None as its signature allows and as httpx_sdk_async_streaming.py
\* runs its stream_one (gather over tasks that print without a lock)
InitAnyCall ==
    /\ limit = SemPermits
    /\ m \in 0..N
    /\ mainpc = "start"
    /\ pc = [t \in 1..m |-> "pending"]
    /\ sem = limit
    /\ lock \in {0, NoLock}
    /\ recv = [t \in 1..m |-> NoRecv]
    /\ outcome = [t \in 1..m |-> "none"]
    /\ cancelReq = [t \in 1..m |-> FALSE]
    /\ acquired = [t \in 1..m |-> 0]
    /\ released = [t \in 1..m |-> 0]
    /\ out = NoOutput

SpecAnyCall == InitAnyCall /\ [][Next]_vars

\* ---- runs without a fault, under fair scheduling -------------------------
\* the steps task t makes when the event loop runs it
LoopStep(t) ==
    \/ Acquire(t)
    \/ LockAcquire(t)
    \/ WriteHeader(t)
    \/ WriteFragment(t)
    \/ WriteTrailer(t)
    \/ CloseStream(t)

\* the lines json.loads accepts or the loop skips
GoodKinds == {k \in LineKinds : IsEmptyLine(k) \/ ~DecodeFails(k)}

\* the steps of task t that wait for a backend which serves every request:
\* the connection is made, and the stream delivers well-formed lines until
\* it delivers "done" or ends
BackendStep(t) ==
    \/ ConnectOk(t)
    \/ \E k \in GoodKinds : ReadLine(t, k)
    \/ ReadEnd(t)

NextNoFault ==
    \/ Gather
    \/ GatherReturn
    \/ \E t \in Tasks : LoopStep(t)
    \/ \E t \in Tasks : BackendStep(t)

\* The event loop runs every task that is ready (a task whose await is over
\* is put on the ready queue and the queue is served in order), and main()
\* likewise.
LoopFair ==
    /\ WF_vars(Gather \/ GatherReturn)
    /\ \A t \in 1..N : WF_vars(t \in Tasks /\ LoopStep(t))

\* Every opened stream goes on until it has delivered "done" or ended.
BackendFair ==
    \A t \in 1..N : WF_vars(t \in Tasks /\ BackendStep(t))

FairSpec == Init /\ [][NextNoFault]_vars /\ LoopFair /\ BackendFair

TypeOK ==
    /\ limit \in 1..SemPermits
    /\ m \in 0..N
    /\ sem \in 0..SemPermits
    /\ lock \in {NoLock} \cup 0..N

\* ---- 05_async_many.py: concurrent requests without streaming -------------
\* main() gathers one(client, model) per model.  one() awaits client.post
\* and then makes three prints with no await in between and no lock.  The
\* variables m, mainpc, pc, outcome, cancelReq and out are used as above; the
\* program has no semaphore, no lock and no stream.
\*   "posting"   suspended in `await client.post(...)`
\*   "one_text"  resumed, header printed, before the print of the text
\*   "one_gap"   text printed, before the print of the spacing

\* an await between the prints of one(): every position is a suspension point
IsAwaitAlways(p) == TRUE

\* the task is not running at position p: it is not started, suspended at an
\* await, or finished
IsAwait(p) == p \in {"pending", "posting", "terminated"}

\* the event loop runs one task at a time up to its next await: t (or main(),
\* t = 0) makes a step only when no other task is in the middle of a run
LoopFree(t) == \A u \in Tasks \ {t} : IsAwait(pc[u])

InitMany ==
    /\ limit = SemPermits
    /\ m \in 0..N
    /\ mainpc = "start"
    /\ pc = [t \in 1..m |-> "pending"]
    /\ sem = limit
    /\ lock = NoLock
    /\ recv = [t \in 1..m |-> NoRecv]
    /\ outcome = [t \in 1..m |-> "none"]
    /\ cancelReq = [t \in 1..m |-> FALSE]
    /\ acquired = [t \in 1..m |-> 0]
    /\ released = [t \in 1..m |-> 0]
    /\ out = NoOutput

\* asyncio.gather(*(one(client, model) for model in models)): every task
\* runs up to `await client.post`
GatherMany ==
    /\ mainpc = "start"
    /\ mainpc' = "gather"
    /\ pc' = [t \in Tasks |-> "posting"]
    /\ UNCHANGED <<limit, m, sem, lock, recv, outcome, cancelReq, acquired, released, out>>

\* client.post returns the response; print(header)
PostOk(t) ==
    /\ pc[t] = "posting"
    /\ ~cancelReq[t]
    /\ LoopFree(t)
    /\ out' = Emit(out, t, <<"hdr", 0>>)
    /\ pc' = [pc EXCEPT ![t] = "one_text"]
    /\ UNCHANGED <<limit, m, mainpc, sem, lock, recv, outcome, cancelReq, acquired, released>>

\* client.post raises
PostFail(t) ==
    /\ pc[t] = "posting"
    /\ ~cancelReq[t]
    /\ LoopFree(t)
    /\ outcome' = [outcome EXCEPT ![t] = "ConnectFailure"]
    /\ pc' = [pc EXCEPT ![t] = "terminated"]
    /\ UNCHANGED <<limit, m, mainpc, sem, lock, recv, cancelReq, acquired, released, out>>

\* print(response.json()["response"].strip())
PrintText(t) ==
    /\ pc[t] = "one_text"
    /\ LoopFree(t)
    /\ out' = Emit(out, t, <<"frag", 1>>)
    /\ pc' = [pc EXCEPT ![t] = "one_gap"]
    /\ UNCHANGED <<limit, m, mainpc, sem, lock, recv, outcome, cancelReq, acquired, released>>

\* response.json() raises, or the body has no "response" (an error reply:
\* there is no raise_for_status)
BadBody(t) ==
    /\ pc[t] = "one_text"
    /\ LoopFree(t)
    /\ outcome' = [outcome EXCEPT ![t] = "MalformedRecord"]
    /\ pc' = [pc EXCEPT ![t] = "terminated"]
    /\ UNCHANGED <<limit, m, mainpc, sem, lock, recv, cancelReq, acquired, released, out>>

\* print("\n\n"); one() returns
PrintGap(t) ==
    /\ pc[t] = "one_gap"
    /\ LoopFree(t)
    /\ out' = Emit(out, t, <<"trl", 0>>)
    /\ outcome' = [outcome EXCEPT ![t] = "Success"]
    /\ pc' = [pc EXCEPT ![t] = "terminated"]
    /\ UNCHANGED <<limit, m, mainpc, sem, lock, recv, cancelReq, acquired, released>>

\* CancelledError is thrown into the task suspended in client.post
CancelPost(t) ==
    /\ cancelReq[t]
    /\ pc[t] = "posting"
    /\ LoopFree(t)
    /\ cancelReq' = [cancelReq EXCEPT ![t] = FALSE]
    /\ outcome' = [outcome EXCEPT ![t] = "Cancelled"]
    /\ pc' = [pc EXCEPT ![t] = "terminated"]
    /\ UNCHANGED <<limit, m, mainpc, sem, lock, recv, acquired, released, out>>

NextMany ==
    \/ GatherMany
    \/ LoopFree(0) /\ GatherRaise
    \/ LoopFree(0) /\ GatherReturn
    \/ \E t \in Tasks : PostOk(t)
    \/ \E t \in Tasks : PostFail(t)
    \/ \E t \in Tasks : PrintText(t)
    \/ \E t \in Tasks : BadBody(t)
    \/ \E t \in Tasks : PrintGap(t)
    \/ \E t \in Tasks : CancelPost(t)

SpecMany == InitMany /\ [][NextMany]_vars

\* ---- helpers of the properties -----------------------------------------
Min(a, b) == IF a < b THEN a ELSE b

RECURSIVE SumOver(_, _)
SumOver(f, n) == IF n = 0 THEN 0 ELSE f[n] + SumOver(f, n - 1)

\* the entries of stdout that task t wrote with tag w
EntriesOf(o, t, w) == SelectSeq(o.by[t], LAMBDA e : e[1] = w)

\* the numbers of the increments task t wrote, in stdout order
FragsOf(o, t) == LET s == EntriesOf(o, t, "frag") IN [i \in 1..Len(s) |-> s[i][2]]

\* the numbers of the increments task t received, in arrival order
RecvIncs(t) == [i \in 1..recv[t].incs |-> i]

IsPrefix(a, b) == Len(a) <= Len(b) /\ SubSeq(b, 1, Len(a)) = a

\* ---- C1 -------------------------------------------------------------------
\* C1: for every limit k and target count m, the number of tasks that hold
\* a permit with a stream being opened or open never exceeds min(k, m).
OpenStreams == {t \in Tasks : pc[t] \in StreamOpen \cup {"connecting"}}

C1_BoundedStreams == Cardinality(OpenStreams) <= Min(limit, m)

\* more targets than permits, all permits in use, one task kept waiting
C1_Witness ==
    /\ limit < m
    /\ Cardinality(OpenStreams) = limit
    /\ sem = 0
    /\ \E t \in Tasks : pc[t] = "acquiring"
    /\ \E t \in Tasks : pc[t] = "reading"

\* ---- C2 -------------------------------------------------------------------
\* C2: writes to stdout are mutually exclusive: at most one task is inside a
\* header, fragment or trailer write, it is the holder of the lock, and while
\* it is inside the write no other task's output is appended.
Writers == {t \in Tasks : pc[t] \in WriteStates}

C2_OneWriter ==
    /\ Cardinality(Writers) <= 1
    /\ \A t \in Writers : lock = t

C2_NoSplit ==
    \A t \in Writers :
        out' # out => /\ out'.last = t
                      /\ \A u \in Tasks \ {t} : out'.by[u] = out.by[u]

C2_MutualExclusion == [](C2_OneWriter) /\ [][C2_NoSplit]_vars

\* one task inside a fragment write while another waits for the lock
C2_Witness ==
    \E t, u \in Tasks : pc[t] = "frag_write" /\ pc[u] \in LockWaits

\* ---- C3 -------------------------------------------------------------------
\* C3: (as claimed) a failure of one task never cancels another task: no task
\* ever ends with CancelledError, since no fail-fast was requested.
C3_FaultIsolation == \A t \in Tasks : outcome[t] # "Cancelled"

\* ---- C4 -------------------------------------------------------------------
\* C4: every permit acquired is released exactly once on every termination
\* path: a task holds at most one permit, holds it exactly while it is between
\* acquire and the end of wrapped(), the semaphore value accounts for the
\* permits held, and once all tasks are terminated it is back at its limit.
Held(t) == acquired[t] - released[t]

C4_PermitReleasedOnce ==
    /\ \A t \in Tasks :
         /\ acquired[t] \in 0..1
         /\ released[t] \in 0..acquired[t]
         /\ (Held(t) = 1) <=> (pc[t] \in HoldsPermit)
    /\ sem = limit - (SumOver(acquired, m) - SumOver(released, m))
    /\ AllTerminated => /\ sem = limit
                        /\ \A t \in Tasks : released[t] = acquired[t]

\* a run that is over, in which one task failed after taking a permit and
\* another was cancelled after taking a permit
C4_Witness ==
    /\ Exited
    /\ sem = limit
    /\ \E t, u \in Tasks :
         /\ outcome[t] = "Cancelled" /\ released[t] = 1
         /\ outcome[u] \in {"MalformedRecord", "ReadError", "ConnectFailure"}
         /\ released[u] = 1

\* ---- C5 -------------------------------------------------------------------
\* C5: (as claimed) in the state where main() has returned or raised, every
\* task is terminated.
C5_MainWaitsForAll ==
    mainpc \in {"returned", "raised"} => AllTerminated

\* ---- C6 -------------------------------------------------------------------
\* C6: (as claimed) a task whose stream ended after at least one fragment and
\* before any "done" ends with ConnectionClosedEarly, not as a success, and
\* the fragments it wrote are still in stdout.
ClosedEarly(t) ==
    /\ recv[t].last = "eof"
    /\ recv[t].incs >= 1

C6_ClosedEarlyIsFailure ==
    \A t \in Tasks :
        (pc[t] = "terminated" /\ ClosedEarly(t) /\ outcome[t] # "Cancelled")
            => /\ outcome[t] = "ConnectionClosedEarly"
               /\ FragsOf(out, t) = RecvIncs(t)

\* ---- C7 -------------------------------------------------------------------
\* C7: (as claimed) a malformed record terminates only the task that received
\* it: when the malformed record of t is the only failure of the run, t ends
\* with MalformedRecord and no other task is cancelled.
Malformed(t) == recv[t].last = "bad"

C7_MalformedIsLocal ==
    \A t \in Tasks :
        (/\ Malformed(t)
         /\ \A u \in Tasks \ {t} :
               outcome[u] \notin {"MalformedRecord", "ReadError", "ConnectFailure"})
            => /\ pc[t] = "terminated" => outcome[t] = "MalformedRecord"
               /\ \A u \in Tasks \ {t} : outcome[u] # "Cancelled"

\* ---- C8 -------------------------------------------------------------------
\* C8: for every task, the fragments it wrote to stdout are, in stdout order,
\* the text increments it received in arrival order; only the increment being
\* written (or abandoned by a cancellation) may be missing at the end.
C8_FragmentOrder ==
    \A t \in Tasks :
        LET w == FragsOf(out, t)
            r == RecvIncs(t)
        IN /\ IsPrefix(w, r)
           /\ Len(r) - Len(w) <= 1
           /\ Len(w) < Len(r) =>
                \/ pc[t] \in {"frag_lock", "frag_write"}
                \/ outcome[t] = "Cancelled"

\* a task wrote its first fragment, another task wrote after that, and the
\* second fragment of the first task arrived and is being written
C8_Witness ==
    \E t \in Tasks :
        /\ FragsOf(out, t) = <<1>>
        /\ recv[t].incs = 2
        /\ pc[t] = "frag_write"
        /\ out.last \notin {0, t}

\* ---- C9 -------------------------------------------------------------------
\* C9: an empty record writes nothing and changes no state of the task, and
\* is not an error; a stream of empty lines followed by a "done" record gives
\* no fragment write and exactly one trailer with a successful end.
OnlyEmptiesThenDone(r) == r.quiet /\ r.last = "done"

C9_EmptyStep ==
    \A t \in Tasks :
        (recv'[t] # recv[t] /\ recv'[t].last = "empty")
            => /\ recv'[t] = [recv[t] EXCEPT !.last = "empty",
                                             !.lines = @ + 1,
                                             !.quiet = recv'[t].quiet]
               /\ out' = out
               /\ pc' = pc
               /\ outcome' = outcome
               /\ sem' = sem
               /\ lock' = lock

C9_EmptiesThenDone ==
    \A t \in Tasks :
        OnlyEmptiesThenDone(recv[t])
            => /\ Len(EntriesOf(out, t, "frag")) = 0
               /\ Len(EntriesOf(out, t, "trl")) <= 1
               /\ outcome[t] \in {"none", "Success", "Cancelled"}
               /\ (pc[t] = "terminated" /\ outcome[t] = "Success")
                     => Len(EntriesOf(out, t, "trl")) = 1

C9_KeepAlive == [](C9_EmptiesThenDone) /\ [][C9_EmptyStep]_vars

\* a task received an empty line and then "done", and ended successfully
C9_Witness ==
    \E t \in Tasks :
        /\ OnlyEmptiesThenDone(recv[t])
        /\ recv[t].lines = 2
        /\ pc[t] = "terminated"
        /\ outcome[t] = "Success"
        /\ Len(EntriesOf(out, t, "trl")) = 1

\* ---- C10 ------------------------------------------------------------------
\* C10: a record with both a text increment and the completion marker is
\* written as fragment, then trailer, and the task then ends successfully; a
\* record with the completion marker is the last one the task reads, with or
\* without an increment.
Precedes(o, t, a, b) ==
    \E i, j \in 1..Len(o.by[t]) : i < j /\ o.by[t][i] = a /\ o.by[t][j] = b

WroteTrailer(t) == Len(EntriesOf(out, t, "trl")) > 0

C10_DoneIsLast ==
    \A t \in Tasks : HasDone(recv[t].last) => recv'[t] = recv[t]

C10_FragmentBeforeTrailer ==
    \A t \in Tasks :
        HasDone(recv[t].last) =>
             /\ (WroteTrailer(t) /\ HasResponse(recv[t].last))
                   => Precedes(out, t, <<"frag", recv[t].incs>>, <<"trl", 0>>)
             /\ (pc[t] = "terminated" /\ outcome[t] # "Cancelled")
                   => outcome[t] = "Success" /\ WroteTrailer(t)
             /\ outcome[t] = "Success" => WroteTrailer(t)

C10_FragmentThenDone ==
    [](C10_FragmentBeforeTrailer) /\ [][C10_DoneIsLast]_vars

\* a task ended successfully on a record carrying increment and marker
C10_Witness ==
    \E t \in Tasks :
        /\ recv[t].last = "fragdone"
        /\ pc[t] = "terminated"
        /\ outcome[t] = "Success"
        /\ Precedes(out, t, <<"frag", recv[t].incs>>, <<"trl", 0>>)

\* ---- C11 ------------------------------------------------------------------
\* C11: once the run is cancelled after a first failed task result (more
\* targets than permits, limit 2), every task that had not ended, parked at
\* the semaphore or in the middle of its stream, reads nothing more and ends
\* with Cancelled, never by natural completion; when the run is over no
\* permit is held.
C11_CancelStep ==
    \A t \in Tasks :
        (mainpc = "raised" /\ pc[t] # "terminated")
            => /\ recv'[t] = recv[t]
               /\ acquired'[t] = acquired[t]
               /\ pc'[t] = "terminated" => outcome'[t] = "Cancelled"

C11_NoPermitLeft ==
    Exited => /\ sem = limit
              /\ \A t \in Tasks : Held(t) = 0

PermitHolders == {t \in Tasks : pc[t] \in HoldsPermit}

C12_OneAtATime == limit = 1 => Cardinality(PermitHolders) <= 1

C12_Block ==
    limit = 1 =>
        \A t \in Tasks :
            (out' # out /\ out'.last = t /\ out.last # t) => out.by[t] = <<>>

C12_Serialized == [](C12_OneAtATime) /\ [][C12_Block]_vars

\* limit 1: one task wrote header, fragment and trailer, and another task
\* has written after it
C12_Witness ==
    /\ limit = 1
    /\ \E t, u \in Tasks :
         /\ t # u
         /\ Len(out.by[t]) = 3
         /\ WroteTrailer(t)
         /\ Len(out.by[u]) >= 1
         /\ out.last = u

\* ---- C14 ------------------------------------------------------------------
\* C14: (as claimed) the process ends with status 0 exactly when every task
\* ended in Success, that is, received a record with the completion marker:
\* a run that ends with status 0 has no task whose stream lacks the marker,
\* and a run that ends with a nonzero status has such a task.
GotDone(t) == HasDone(recv[t].last)

C14_ExitStatus ==
    /\ mainpc = "returned" => \A t \in Tasks : GotDone(t)
    /\ Exited => \E t \in Tasks : ~GotDone(t)

\* ---- C15 ------------------------------------------------------------------
\* C15: the print lock is held only inside one write: its holder is always a
\* task inside a header, fragment or trailer print, never a task suspended at
\* the semaphore, at the connection, at the next line or at the close of its
\* stream, nor a task that is not running.
C15_LockOnlyForWrite ==
    /\ lock \in {0} \cup Tasks
    /\ \A t \in Tasks :
         /\ lock = t => pc[t] \in WriteStates
         /\ Suspended(t) => lock # t
         /\ pc[t] \in {"pending", "terminated"} => lock # t

\* a task that has written waits for its next line while another task is
\* inside a write with the lock
C15_Witness ==
    \E t, u \in Tasks :
        /\ pc[t] = "reading"
        /\ Len(out.by[t]) >= 1
        /\ pc[u] \in WriteStates
        /\ lock = u

\* ---- C16 ------------------------------------------------------------------
\* C16: (as claimed) however stream_one is invoked, a task that is inside a
\* header, fragment or trailer print holds the print lock.
C16_AlwaysUnderLock ==
    \A t \in Tasks : pc[t] \in WriteStates => lock = t

\* ---- C17 ------------------------------------------------------------------
\* C17: a task is connecting or has a stream only with a permit granted to
\* it; a task that is pending or waiting for its permit has been granted
\* none, has received nothing from the transport and has written nothing.
C17_ConnectAfterPermit ==
    \A t \in Tasks :
        /\ pc[t] \in {"pending", "acquiring"}
              => /\ acquired[t] = 0
                 /\ recv[t] = NoRecv
                 /\ out.by[t] = <<>>
        /\ pc[t] \in {"connecting"} \cup StreamOpen
              => acquired[t] = 1 /\ Held(t) = 1
        /\ (recv[t] # NoRecv \/ out.by[t] # <<>>) => acquired[t] = 1

\* more targets than permits: a task that had to wait for a permit is now
\* connecting while another one still waits, untouched
C17_Witness ==
    \E u, v \in Tasks :
        /\ u > limit
        /\ pc[u] = "connecting"
        /\ Held(u) = 1
        /\ pc[v] = "acquiring"
        /\ sem = 0

\* ---- C18 ------------------------------------------------------------------
\* C18: a task whose stream is open (or being closed) holds its permit, so
\* the open streams never outnumber the permits held; a task reaches its end
\* only from the close of its stream (or from before any stream was opened),
\* never from a position where its stream is in use, and the release of its
\* permit is part of that last step, whatever the outcome.
Streaming == {t \in Tasks : pc[t] \in StreamOpen}

C18_PermitCoversStream ==
    /\ \A t \in Tasks :
         /\ pc[t] \in StreamOpen => Held(t) = 1
         /\ pc[t] = "terminated" => Held(t) = 0
    /\ Cardinality(Streaming) <= limit - sem

C18_EndStep ==
    \A t \in Tasks :
        (pc[t] # "terminated" /\ pc'[t] = "terminated")
            => /\ pc[t] \in {"acquiring", "connecting", "closing"}
               /\ Held(t) = 1 => released'[t] = released[t] + 1

C18_CloseBeforeRelease == [](C18_PermitCoversStream) /\ [][C18_EndStep]_vars

\* a run that is over in which one task ended on a done record, one on a
\* malformed record and one was cancelled after its header
C18_Witness ==
    /\ Exited
    /\ sem = limit
    /\ \E t, u, v \in Tasks :
         /\ outcome[t] = "Success" /\ GotDone(t) /\ released[t] = 1
         /\ outcome[u] = "MalformedRecord" /\ released[u] = 1
         /\ outcome[v] = "Cancelled" /\ Len(out.by[v]) >= 1 /\ released[v] = 1

\* ---- C19 ------------------------------------------------------------------
\* the position of a task in Pending -> Running -> Terminated, the running
\* positions in the order the code passes them
Rank(p) ==
    CASE p = "pending" -> 0
      [] p = "acquiring" -> 1
      [] p = "connecting" -> 2
      [] p \in LockWaits \cup WriteStates \cup {"reading"} -> 3
      [] p = "closing" -> 4
      [] OTHER -> 5

\* a task never goes back to an earlier state, and nothing of a terminated
\* task changes any more
C19_LifecycleStep ==
    \A t \in Tasks :
        /\ Rank(pc'[t]) >= Rank(pc[t])
        /\ pc[t] = "terminated"
              => /\ outcome'[t] = outcome[t]
                 /\ recv'[t] = recv[t]
                 /\ out'.by[t] = out.by[t]
                 /\ acquired'[t] = acquired[t]
                 /\ released'[t] = released[t]

C19_Lifecycle == [][C19_LifecycleStep]_vars

Errors == {"ConnectFailure", "ReadError", "MalformedRecord", "Cancelled"}

\* C19: (as claimed) a task that went Pending -> Running -> Terminated has
\* exactly one outcome and has observed exactly one terminal event: either it
\* received Done and its outcome is Success, or its outcome is an error.
C19_OneTerminalEvent ==
    \A t \in Tasks :
        /\ pc[t] = "pending" => outcome[t] = "none"
        /\ pc[t] = "terminated"
              => /\ outcome[t] \in {"Success"} \cup Errors
                 /\ outcome[t] = "Success" => GotDone(t)
                 /\ GotDone(t) => outcome[t] \in {"Success", "Cancelled"}

\* ---- C20 ------------------------------------------------------------------
\* C20: the run cannot deadlock.  The holder of the print lock holds a permit
\* and is inside a write, so no task waits for a permit (or for anything
\* else) while it holds the lock.  When every opened stream delivers "done"
\* or ends, every launched task is granted a permit and terminates, and
\* main() returns, also with more targets than permits.
C20_LockOrder ==
    \A t \in Tasks :
        lock = t => /\ Held(t) = 1
                    /\ pc[t] \in WriteStates
                    /\ ~Suspended(t)

AllGranted == \A t \in Tasks : acquired[t] = 1

C20_DeadlockFree ==
    /\ [](C20_LockOrder)
    /\ (mainpc = "gather") ~> (AllTerminated /\ AllGranted /\ mainpc = "returned")

\* more targets than permits: two tasks were streaming at once, a third one
\* had to wait; all were granted a permit and ended, and main() returned
C20_Witness ==
    /\ limit = 2
    /\ m = 3
    /\ mainpc = "returned"
    /\ AllTerminated
    /\ AllGranted
    /\ sem = limit
    /\ lock = 0
    /\ \E t \in Tasks : Len(out.by[t]) >= 2

\* ---- C21 ------------------------------------------------------------------
\* C21: a task that has processed a record with the completion marker is
\* never back at the read of the next line: it is writing the increment of
\* that record, writing the trailer, closing or ended.  Its trailer is the
\* last thing it wrote and all fragments in stdout are increments received up
\* to the marker, so nothing that follows Done on the stream is written.
AfterDone == {"frag_lock", "frag_write", "trl_lock", "trl_write", "closing", "terminated"}

C21_NothingAfterDone ==
    \A t \in Tasks :
        /\ GotDone(t)
             => /\ pc[t] \in AfterDone
                /\ pc[t] \in {"frag_lock", "frag_write"} => recv[t].last = "fragdone"
                /\ Len(FragsOf(out, t)) <= recv[t].incs
        /\ WroteTrailer(t)
             => /\ GotDone(t)
                /\ out.by[t][Len(out.by[t])] = <<"trl", 0>>
                /\ pc[t] \in {"closing", "terminated"}

\* a task ended on a done record, its trailer is the last thing it wrote,
\* and the backend could still have delivered further lines
C21_Witness ==
    \E t \in Tasks :
        /\ GotDone(t)
        /\ pc[t] = "terminated"
        /\ WroteTrailer(t)
        /\ out.by[t][Len(out.by[t])] = <<"trl", 0>>
        /\ TotalLines(recv, m) < MaxLines

\* ---- C22 ------------------------------------------------------------------
\* C22: every task writes its header at most once, as the first thing it
\* writes, with its permit granted and its stream established; a task that
\* has read a line or written a fragment has written exactly one header; a
\* task that is not past the establishment of its stream, or failed at it,
\* has written nothing.
BeforeHeader == {"pending", "acquiring", "connecting", "hdr_lock", "hdr_write"}

C22_HeaderOnceFirst ==
    \A t \in Tasks :
        LET h == Len(EntriesOf(out, t, "hdr"))
        IN /\ h <= 1
           /\ out.by[t] # <<>> => out.by[t][1] = <<"hdr", 0>> /\ acquired[t] = 1
           /\ (pc[t] \in StreamOpen \ {"hdr_lock", "hdr_write", "closing"}) => h = 1
           /\ (recv[t] # NoRecv \/ Len(FragsOf(out, t)) > 0) => h = 1
           /\ pc[t] \in BeforeHeader => out.by[t] = <<>>
           /\ outcome[t] = "ConnectFailure" => out.by[t] = <<>>

\* a run that is over in which one task failed to establish its stream and
\* wrote nothing, and another wrote its header and then a fragment
C22_Witness ==
    /\ Exited
    /\ \E t, u \in Tasks :
         /\ outcome[t] = "ConnectFailure"
         /\ out.by[t] = <<>>
         /\ Len(out.by[u]) >= 2
         /\ out.by[u][1] = <<"hdr", 0>>
         /\ out.by[u][2][1] = "frag"

\* ---- C23 ------------------------------------------------------------------
\* C23: a task writes its trailer at most once, only after it received a
\* record with the completion marker and after all of its fragments; a task
\* that ended successfully on such a record wrote it; a task whose stream
\* ended without the marker wrote none.  (That another task may write between
\* the last fragment and the trailer is the state C23_Witness.)
C23_TrailerOnceOnDone ==
    \A t \in Tasks :
        LET n == Len(EntriesOf(out, t, "trl"))
        IN /\ n <= 1
           /\ n = 1 => /\ GotDone(t)
                       /\ FragsOf(out, t) = RecvIncs(t)
                       /\ out.by[t][Len(out.by[t])] = <<"trl", 0>>
           /\ ~GotDone(t) => n = 0
           /\ (GotDone(t) /\ pc[t] = "terminated" /\ outcome[t] = "Success") => n = 1

\* a task wrote its last fragment, then another task wrote, and now the
\* first task is inside the print of its trailer
C23_Witness ==
    \E t, u \in Tasks :
        /\ t # u
        /\ pc[t] = "trl_write"
        /\ Len(out.by[t]) >= 2
        /\ out.by[t][Len(out.by[t])][1] = "frag"
        /\ out.last = u

\* ---- C24 ------------------------------------------------------------------
\* C24: in the shipped configuration (N models, a semaphore of SemPermits
\* permits) the semaphore has a permit for every task that is at its entry:
\* no task ever finds the semaphore at 0, every task whose turn it is is
\* granted a permit at once, and all N streams can be open together.
Shipped == limit = SemPermits /\ m = N

Arriving == {t \in Tasks : pc[t] \in {"pending", "acquiring"}}

C24_NeverBlocks ==
    Shipped =>
        /\ sem >= Cardinality(Arriving)
        /\ \A t \in Tasks :
             (pc[t] = "acquiring" /\ ~cancelReq[t]) => CanAcquire(sem)
        /\ Cardinality(PermitHolders) + sem = SemPermits

\* the shipped configuration with all N streams open at once
C24_Witness ==
    /\ Shipped
    /\ Cardinality(Streaming) = N
    /\ sem = 0
    /\ \A t \in Tasks : pc[t] = "reading"

\* ---- C25 ------------------------------------------------------------------
\* C25: in the variant without streaming and without a lock, what one task
\* prints is one contiguous block of stdout under every interleaving: a task
\* that is between its header and its last print is the latest writer, and a
\* task that writes right after another task (or first) has written nothing
\* before.
MidRun == {t \in Tasks : pc[t] \in {"one_text", "one_gap"}}

C25_LatestWriter ==
    /\ Cardinality(MidRun) <= 1
    /\ \A t \in MidRun : out.last = t

C25_Block ==
    \A t \in Tasks :
        (out' # out /\ out'.last = t /\ out.last # t) => out.by[t] = <<>>

C25_Contiguous == [](C25_LatestWriter) /\ [][C25_Block]_vars

\* three tasks, each printed header, text and spacing, one after the other,
\* in an order other than the order of the models
C25_Witness ==
    /\ m = N
    /\ mainpc = "returned"
    /\ \A t \in Tasks : out.by[t] = <<<<"hdr", 0>>, <<"frag", 1>>, <<"trl", 0>>>>
    /\ out.last = 1
====
